---- MODULE Spec2Model ----
(***************************************************************************)
(* Model of bot.py: the document templating and conversion pipeline        *)
(* fill_docx_and_convert (unpack, scan, substitute, repack, render), the   *)
(* placeholder substitution it applies to every XML part, the final        *)
(* handler that calls it (mdo_sulph / hfo_sulph), and concurrent           *)
(* invocations of that handler.                                            *)
(*                                                                         *)
(* Text is a sequence of characters; a character is a one-element string.  *)
(* "\n" stands for the newline character and "\\" for the backslash.       *)
(***************************************************************************)
EXTENDS Integers, Sequences, FiniteSets, TLC

VARIABLES
    data,       \* the substitution map, in iteration order: <<key, value>> pairs
    xml,        \* the key loop on one part: the content as read
    new_xml,    \* the key loop on one part: the content after the passes so far
    key_i,      \* the key loop on one part: index in data of the current key
    form,       \* the next re.sub of the loop: "double", "single", "done", "error"
    shape,      \* how xml was composed from its pieces (read by the properties)
    input_docx, \* path of the template
    output_docx,\* path of the rendered document
    fs,         \* the files outside the scratch tree: path -> content or NoFile
    fs0,        \* fs at the call (read by the properties)
    tree_made,  \* tempfile.mkdtemp() has returned
    tree_exists,\* the scratch tree is on disk
    tree,       \* the files of the scratch tree: relative path -> content
    scanned,    \* the files the scan loop has visited
    rewritten,  \* the files the scan loop has written back
    pc,         \* the position of fill_docx_and_convert
    pending,    \* the exception raised inside the try block, or NoErr
    err,        \* the exception that reached the caller, or NoErr
    rmtree_calls,\* how often shutil.rmtree(tempdir) was called
    proc,       \* the CompletedProcess of the renderer, or NoProc
    log,        \* what was logged
    ret,        \* the returned pair, or <<>>
    hpc,        \* the position of the final handler (mdo_sulph / hfo_sulph)
    hret,       \* what the final handler returned, or "raised", or "none"
    sent,       \* reply_document has delivered the pdf
    rm_failed,  \* an os.remove of the final handler has raised
    ppc,        \* concurrent invocations: the position of each
    out_docx,   \* concurrent invocations: the temporary name each allocated
    tempdir,    \* concurrent invocations: the scratch directory of each
    disk,       \* concurrent invocations: the invocation that created each file
    interfered, \* concurrent invocations: one has touched a file of another
    state,      \* the conversation: its state, or "END" when there is none
    user_data,  \* context.user_data: <<key, value>> pairs in insertion order
    doc,        \* the number of documents begun (calls of user_data.clear())
    called,     \* the calls of fill_docx_and_convert made by the conversation
    update      \* the update handled last: the state it came in, its text

subvars == <<xml, new_xml, key_i, form, shape>>
pipevars == <<input_docx, output_docx, fs, fs0, tree_made, tree_exists, tree,
              scanned, rewritten, pc, pending, err, rmtree_calls, proc, log, ret>>
topvars == <<hpc, hret, sent, rm_failed>>
parvars == <<ppc, out_docx, tempdir, disk, interfered>>
convvars == <<state, user_data, doc, called, update>>
vars == <<data, subvars, pipevars, topvars, parvars, convvars>>

(***************************************************************************)
(* Characters.                                                             *)
(***************************************************************************)
NL == "\n"
BS == "\\"

\* \s of the pattern language (the whitespace characters of the model).
IsSpace(c) == c \in {" ", NL}

\* Case folding applied by flags=re.IGNORECASE to the letters of the model.
LowerChar(c) ==
    CASE c = "K" -> "k"
      [] c = "M" -> "m"
      [] OTHER -> c

\* A mutant of CharMatches: comparison that respects case.
CharMatchesExact(c, k) == c = k

\* A mutant of CharMatches: every character is taken for every other.
CharMatchesAny(c, k) == TRUE

\* One literal character of re.escape(key) against one character of the
\* content, under flags=re.IGNORECASE.
CharMatches(c, k) == LowerChar(c) = LowerChar(k)

(***************************************************************************)
(* The two patterns. Every position is an index into the content, 1-based; *)
(* 0 means "no match".                                                     *)
(***************************************************************************)
RECURSIVE SkipSpace(_, _)
\* \s* : greedy, from position p.
SkipSpace(t, p) ==
    IF p <= Len(t) /\ IsSpace(t[p]) THEN SkipSpace(t, p + 1) ELSE p

\* <\/?[^>]+> at position p: "<", at least one character other than ">",
\* then ">". Returns the position after the tag, or 0.
TagEnd(t, p) ==
    IF p <= Len(t) /\ t[p] = "<"
       /\ \E q \in (p + 2)..Len(t) : t[q] = ">"
    THEN LET q == CHOOSE q \in (p + 1)..Len(t) :
                     /\ t[q] = ">"
                     /\ \A r \in (p + 1)..(q - 1) : t[r] # ">"
         IN  IF q >= p + 2 THEN q + 1 ELSE 0
    ELSE 0

RECURSIVE SkipTags(_, _)
\* (?:<\/?[^>]+>)* : greedy, from position p.
SkipTags(t, p) ==
    IF TagEnd(t, p) # 0 THEN SkipTags(t, TagEnd(t, p)) ELSE p

\* escaped = re.escape(key): the key as a literal, at position p.
KeyEnd(t, p, key) ==
    IF /\ p + Len(key) - 1 <= Len(t)
       /\ \A i \in 1..Len(key) : CharMatches(t[p + i - 1], key[i])
    THEN p + Len(key)
    ELSE 0

\* The part of both patterns after the opening delimiter:
\*   \s* (?:<\/?[^>]+>)* \s* KEY \s* (?:<\/?[^>]+>)* \s* \}\}
BodyEnd(t, p, key) ==
    LET k == KeyEnd(t, SkipSpace(t, SkipTags(t, SkipSpace(t, p))), key)
    IN  IF k = 0 THEN 0
        ELSE LET c == SkipSpace(t, SkipTags(t, SkipSpace(t, k)))
             IN  IF c + 1 <= Len(t) /\ t[c] = "}" /\ t[c + 1] = "}"
                 THEN c + 2
                 ELSE 0

\* pattern_double / pattern_single matched at position i. fm is "double"
\* for {{KEY}} and "single" for {KEY}}.
MatchAt(t, i, key, fm) ==
    IF fm = "double"
    THEN IF i + 1 <= Len(t) /\ t[i] = "{" /\ t[i + 1] = "{"
         THEN BodyEnd(t, i + 2, key) ELSE 0
    ELSE IF i <= Len(t) /\ t[i] = "{"
         THEN BodyEnd(t, i + 1, key) ELSE 0

\* Whether the pattern occurs anywhere in the content.
Occurs(t, key, fm) == \E i \in 1..Len(t) : MatchAt(t, i, key, fm) # 0

(***************************************************************************)
(* The replacement. re.sub(pattern, str(value), ...) reads the value as a  *)
(* replacement template: a backslash starts an escape.                     *)
(*   \n          the newline character                                     *)
(*   \\          one backslash                                             *)
(*   \9          a group reference; the patterns have no group: re.error   *)
(*   \x          (an ASCII letter that is no escape): re.error             *)
(*   \(          (any other character): kept as the two characters         *)
(*   \ at the end of the value: re.error                                   *)
(* The digit of the model is 9, which is never read as an octal escape.    *)
(***************************************************************************)
IsDigit(c) == c \in {"9"}
IsBadEscapeLetter(c) == c \in {"x", "i", "k", "m", "K", "M"}

RECURSIVE TemplateText(_)
\* The text a well-formed template stands for.
TemplateText(v) ==
    IF v = <<>> THEN <<>>
    ELSE IF Head(v) # BS THEN <<Head(v)>> \o TemplateText(Tail(v))
    ELSE IF v[2] = "n" THEN <<NL>> \o TemplateText(SubSeq(v, 3, Len(v)))
    ELSE IF v[2] = BS THEN <<BS>> \o TemplateText(SubSeq(v, 3, Len(v)))
    ELSE <<BS, v[2]>> \o TemplateText(SubSeq(v, 3, Len(v)))

RECURSIVE TemplateOk(_)
\* Whether the value parses as a replacement template (no re.error).
TemplateOk(v) ==
    IF v = <<>> THEN TRUE
    ELSE IF Head(v) # BS THEN TemplateOk(Tail(v))
    ELSE /\ Len(v) >= 2
         /\ ~IsDigit(v[2])
         /\ ~IsBadEscapeLetter(v[2])
         /\ TemplateOk(SubSeq(v, 3, Len(v)))

\* A mutant of Replacement: the value is inserted as it is.
ReplacementLiteral(v) == [ok |-> TRUE, text |-> v]

\* What re.sub inserts for str(value): [ok, text]; ok = FALSE is re.error.
Replacement(v) ==
    IF TemplateOk(v) THEN [ok |-> TRUE, text |-> TemplateText(v)]
    ELSE [ok |-> FALSE, text |-> <<>>]

RECURSIVE SubFrom(_, _, _, _, _)
\* re.sub from position i on: the leftmost match is replaced and the scan
\* goes on after it, never into the inserted text.
SubFrom(t, i, key, fm, r) ==
    IF i > Len(t) THEN <<>>
    ELSE LET e == MatchAt(t, i, key, fm)
         IN  IF e # 0 THEN r \o SubFrom(t, e, key, fm, r)
             ELSE <<t[i]>> \o SubFrom(t, i + 1, key, fm, r)

\* new_xml = re.sub(pattern, str(value), new_xml, flags=re.IGNORECASE)
Sub(t, key, fm, v) ==
    LET r == Replacement(v)
    IN  IF r.ok THEN [ok |-> TRUE, text |-> SubFrom(t, 1, key, fm, r.text)]
        ELSE [ok |-> FALSE, text |-> t]

\* A mutant of KeyPass: the degraded form first, then the delimited one.
KeyPassSingleFirst(t, key, v) ==
    LET d == Sub(t, key, "single", v)
    IN  IF d.ok THEN Sub(d.text, key, "double", v) ELSE d

\* One iteration of "for key, value in data.items()": the delimited fm,
\* then the degraded fm on its result.
KeyPass(t, key, v) ==
    LET d == Sub(t, key, "double", v)
    IN  IF d.ok THEN Sub(d.text, key, "single", v) ELSE d

RECURSIVE SubstituteAll(_, _)
\* The whole key loop on one part, keys in the order of the map.
SubstituteAll(t, d) ==
    IF d = <<>> THEN [ok |-> TRUE, text |-> t]
    ELSE LET p == KeyPass(t, Head(d)[1], Head(d)[2])
         IN  IF p.ok THEN SubstituteAll(p.text, Tail(d)) ELSE p

(***************************************************************************)
(* The inputs of the key loop: contents composed of pieces, and maps.      *)
(***************************************************************************)
MaxKeyLen == 2      \* longest key written between the delimiters
MaxValLen == 2      \* longest value of a map with one key

RECURSIVE SeqsUpTo(_, _)
\* All sequences over S of length at most n.
SeqsUpTo(S, n) ==
    IF n = 0 THEN {<<>>}
    ELSE LET R == SeqsUpTo(S, n - 1)
         IN  R \cup {Append(r, c) : r \in {q \in R : Len(q) = n - 1}, c \in S}

ValueChars == {"x", "(", BS, "n", "9"}
Values == SeqsUpTo(ValueChars, MaxValLen)
ShortValues == SeqsUpTo(ValueChars, MaxValLen - 1)

Tag == <<"<", "i", ">">>
Frags == {<<>>, Tag, Tag \o Tag, <<" ">> \o Tag}
Opens == {<<"{", "{">>, <<"{">>}
Closes == {<<"}", "}">>, <<"}">>}
Before == {<<>>, <<"{">>, <<"x">>}
After == {<<>>, <<"}">>, <<"x">>, <<"M", "}", "}">>, <<"{", "{", "m", "}", "}">>}

\* Keys as they may be written in a part, and the keys that differ from a
\* written key by case only.
Written == SeqsUpTo({"k", "K"}, MaxKeyLen) \ {<<>>}
SameFold(w, key) ==
    /\ Len(w) = Len(key)
    /\ \A i \in 1..Len(w) : LowerChar(w[i]) = LowerChar(key[i])
CaseVariants(w) == {key \in Written : SameFold(w, key)}

\* Maps of the context family: the keys K and M, in either order.
Maps1 == {<< <<key, v>> >> : key \in {<<"K">>, <<"M">>}, v \in Values}
Maps2 == {m \in {<< <<k1, v1>>, <<k2, v2>> >> :
                    k1 \in {<<"K">>, <<"M">>}, k2 \in {<<"K">>, <<"M">>},
                    v1 \in ShortValues, v2 \in ShortValues} : m[1][1] # m[2][1]}

\* Maps where the value of K holds a placeholder for M, in either order.
NestedMaps ==
    { << <<<<"K">>, <<"{", "{", "m", "}", "}">>>>, <<<<"M">>, <<"x">>>> >>,
      << <<<<"M">>, <<"x">>>>, <<<<"K">>, <<"{", "{", "m", "}", "}">>>> >> }

\* The content a shape stands for: before, opening delimiter, fragment,
\* first j characters of the written key, fragment, rest of the written
\* key, fragment, closing delimiter, after.
Compose(s) ==
    s.before \o s.open \o s.f0 \o SubSeq(s.w, 1, s.j) \o s.f1
      \o SubSeq(s.w, s.j + 1, Len(s.w)) \o s.f2 \o s.close \o s.after

Shapes(B, O, F0, W, F1, F2, C, A) ==
    {[before |-> b, open |-> o, f0 |-> f0, w |-> w, j |-> j, f1 |-> f1,
      f2 |-> f2, close |-> c, after |-> a] :
        b \in B, o \in O, f0 \in F0, w \in W, j \in 1..MaxKeyLen,
        f1 \in F1, f2 \in F2, c \in C, a \in A}

\* A placeholder interrupted by fragments, possibly inside the key text.
InitSplit ==
    /\ shape \in {s \in Shapes({<<>>}, Opens, Frags, Written, Frags, Frags,
                               {<<"}", "}">>}, {<<>>}) : s.j <= Len(s.w)}
    /\ \E key \in CaseVariants(shape.w) : data = << <<key, <<"x">>>> >>

\* A placeholder written in some case, for a key in some case, any value.
InitCase ==
    /\ shape \in {s \in Shapes({<<>>}, {<<"{", "{">>}, {<<>>}, Written, {<<>>},
                               {<<>>}, {<<"}", "}">>}, {<<>>}) : s.j = Len(s.w)}
    /\ \E key \in CaseVariants(shape.w), v \in Values : data = << <<key, v>> >>

\* A placeholder (or a near miss of one) for K in a context, any map.
InitContext ==
    /\ shape \in {s \in Shapes(Before, Opens, {<<>>}, {<<"K">>}, {<<>>}, {<<>>},
                               Closes, After) : s.j = Len(s.w)}
    /\ data \in Maps1 \cup Maps2 \cup NestedMaps

(***************************************************************************)
(* Files. A path is [stem, ext]; a relative path inside a container is     *)
(* [dir, name, ext] with dir the sequence of its directories.              *)
(***************************************************************************)
NoFile == [kind |-> "none"]
NoErr == [type |-> "none"]
NoProc == [ran |-> FALSE]

Path(stem, ext) == [stem |-> stem, ext |-> ext]
Paths == {Path("t", "docx"), Path("o", "docx"), Path("o", "pdf"), Path("t", "pdf")}

\* output_pdf = os.path.splitext(output_docx)[0] + ".pdf"
PdfPath(p) == [stem |-> p.stem, ext |-> "pdf"]

Entry(dir, name, ext) == [dir |-> dir, name |-> name, ext |-> ext]
DocumentXml == Entry(<<"word">>, "document", "xml")
HeaderXml == Entry(<<"word">>, "header1", "XML")
ImagePng == Entry(<<"word", "media">>, "image1", "png")
AppXml == Entry(<<"docProps">>, "app", "xml")

\* A file that decodes as UTF-8, and one that does not.
TextFile(chars) == [kind |-> "text", chars |-> chars]
ByteFile == [kind |-> "bytes"]
Decodable(c) == c.kind = "text"

WithPlaceholder == TextFile(<<"{", "{", "K", "}", "}", "x">>)
NearMiss == TextFile(<<"{", "{", "K", "}">>)

\* A zip container, a file that is no zip container, a container whose
\* writing broke off, a file that was at an output path before the call,
\* and the file the renderer writes.
Container(files) == [kind |-> "zip", files |-> files]
CorruptFile == [kind |-> "corrupt"]
PartialFile == [kind |-> "partial"]
OldFile == [kind |-> "old"]
PdfFile == [kind |-> "pdf"]

Templates ==
    {Container([e \in {DocumentXml, HeaderXml, ImagePng, AppXml} |->
                  CASE e = DocumentXml -> d
                    [] e = HeaderXml -> h
                    [] e = ImagePng -> i
                    [] OTHER -> a]) :
        d \in {WithPlaceholder, NearMiss, ByteFile},
        h \in {WithPlaceholder, NearMiss},
        i \in {ByteFile, WithPlaceholder},
        a \in {WithPlaceholder, NearMiss}}

DataChoices ==
    { <<>>,
      << <<<<"K">>, <<"x">>>> >>,
      << <<<<"K">>, <<BS, "9">>>> >>,
      << <<<<"M">>, <<"x">>>> >>,
      << <<<<"M">>, <<"x">>>>, <<<<"k">>, <<"(", "x", ")">>>> >>,
      << <<<<"K">>, <<"x", "{", "{", "K", "}", "}">>>> >> }

(***************************************************************************)
(* fill_docx_and_convert(input_docx, output_docx, data)                    *)
(***************************************************************************)
Error(type, at) == [type |-> type, at |-> at]

\* The function is called on its own, outside of a handler.
NoHandler ==
    /\ hpc = "none"
    /\ hret = "none"
    /\ sent = FALSE
    /\ rm_failed = FALSE

\* No conversation.
NoConversation ==
    /\ state = "END"
    /\ user_data = <<>>
    /\ doc = 0
    /\ called = {}
    /\ update = [at |-> "END", text |-> "none"]

\* No concurrent invocations.
NoConcurrency ==
    /\ ppc = <<>>
    /\ out_docx = <<>>
    /\ tempdir = <<>>
    /\ disk = <<>>
    /\ interfered = FALSE

Init ==
    /\ data \in DataChoices
    /\ \E pair \in { <<Path("t", "docx"), Path("o", "docx")>>,
                      <<Path("t", "docx"), Path("t", "docx")>>,
                      <<Path("o", "pdf"), Path("o", "docx")>> } :
          /\ input_docx = pair[1]
          /\ output_docx = pair[2]
    /\ \E tpl \in Templates \cup {CorruptFile, NoFile},
          oldDocx \in {NoFile, OldFile}, oldPdf \in {NoFile, OldFile} :
          fs = [p \in Paths |->
                  IF p = input_docx THEN tpl
                  ELSE IF p = output_docx THEN oldDocx
                  ELSE IF p = PdfPath(output_docx) THEN oldPdf
                  ELSE NoFile]
    /\ fs0 = fs
    /\ tree_made = FALSE
    /\ tree_exists = FALSE
    /\ tree = <<>>
    /\ scanned = {}
    /\ rewritten = {}
    /\ pc = "rm_docx"
    /\ pending = NoErr
    /\ err = NoErr
    /\ rmtree_calls = 0
    /\ proc = NoProc
    /\ log = {}
    /\ ret = <<>>
    /\ xml = <<>>
    /\ new_xml = <<>>
    /\ key_i = 1
    /\ form = "idle"
    /\ shape = <<>>
    /\ NoHandler
    /\ NoConcurrency
    /\ NoConversation

\* try: if os.path.exists(output_docx): os.remove(output_docx)
\* except Exception: pass
RemoveOldDocx ==
    /\ pc = "rm_docx"
    /\ \E removed \in BOOLEAN :
          fs' = IF fs[output_docx] # NoFile /\ removed
                THEN [fs EXCEPT ![output_docx] = NoFile]
                ELSE fs
    /\ pc' = "rm_pdf"
    /\ UNCHANGED <<data, subvars, input_docx, output_docx, fs0, tree_made,
                   tree_exists, tree, scanned, rewritten, pending, err,
                   rmtree_calls, proc, log, ret>>
    /\ UNCHANGED <<topvars, parvars, convvars>>

\* try: if os.path.exists(output_pdf): os.remove(output_pdf)
\* except Exception: pass
RemoveOldPdf ==
    /\ pc = "rm_pdf"
    /\ \E removed \in BOOLEAN :
          fs' = IF fs[PdfPath(output_docx)] # NoFile /\ removed
                THEN [fs EXCEPT ![PdfPath(output_docx)] = NoFile]
                ELSE fs
    /\ pc' = "mkdtemp"
    /\ UNCHANGED <<data, subvars, input_docx, output_docx, fs0, tree_made,
                   tree_exists, tree, scanned, rewritten, pending, err,
                   rmtree_calls, proc, log, ret>>
    /\ UNCHANGED <<topvars, parvars, convvars>>

\* tempdir = tempfile.mkdtemp(), before the try block.
Mkdtemp ==
    /\ pc = "mkdtemp"
    /\ \E made \in BOOLEAN :
          IF made
          THEN /\ tree_made' = TRUE
               /\ tree_exists' = TRUE
               /\ pc' = "extract"
               /\ err' = err
          ELSE /\ err' = Error("OSError", "mkdtemp")
               /\ pc' = "failed"
               /\ UNCHANGED <<tree_made, tree_exists>>
    /\ UNCHANGED <<data, subvars, input_docx, output_docx, fs, fs0, tree,
                   scanned, rewritten, pending, rmtree_calls, proc, log, ret>>
    /\ UNCHANGED <<topvars, parvars, convvars>>

\* with zipfile.ZipFile(input_docx, 'r') as zin: zin.extractall(tempdir)
Extract ==
    /\ pc = "extract"
    /\ LET src == fs[input_docx] IN
       IF src = NoFile
       THEN /\ pending' = Error("FileNotFoundError", "extract")
            /\ pc' = "cleanup"
            /\ tree' = tree
       ELSE IF src.kind # "zip"
       THEN /\ pending' = Error("BadZipFile", "extract")
            /\ pc' = "cleanup"
            /\ tree' = tree
       ELSE \E all \in BOOLEAN :
              IF all
              THEN /\ tree' = src.files
                   /\ pc' = "scan"
                   /\ pending' = pending
              ELSE /\ \E got \in {S \in SUBSET DOMAIN src.files : Cardinality(S) <= 1} :
                         tree' = [e \in got |-> src.files[e]]
                   /\ pending' = Error("OSError", "extract")
                   /\ pc' = "cleanup"
    /\ UNCHANGED <<data, subvars, input_docx, output_docx, fs, fs0, tree_made,
                   tree_exists, scanned, rewritten, err, rmtree_calls, proc,
                   log, ret>>
    /\ UNCHANGED <<topvars, parvars, convvars>>

\* word_dir = os.path.join(tempdir, 'word'); os.walk(word_dir)
InWordDir(e) == Len(e.dir) >= 1 /\ e.dir[1] = "word"

\* str.lower() on the extensions of the model.
LowerExt(x) == IF x = "XML" THEN "xml" ELSE x

\* A mutant of IsXmlName: every file of word/ is taken for a markup part.
IsXmlNameAny(e) == TRUE

\* fname.lower().endswith('.xml')
IsXmlName(e) == LowerExt(e.ext) = "xml"

\* The files the two loops of the scan reach.
ScanTargets == {e \in DOMAIN tree : InWordDir(e) /\ IsXmlName(e)}

\* A mutant of ShouldWrite: every part that was read is written back.
ShouldWriteAlways(n, o) == TRUE

\* if new_xml != xml:
ShouldWrite(n, o) == n # o

\* One iteration of "for fname in files": read, the key loop, write back.
\* os.walk gives the files in the order of the directory listing.
ScanPart ==
    /\ pc = "scan"
    /\ \E e \in ScanTargets \ scanned :
          /\ scanned' = scanned \cup {e}
          /\ IF ~Decodable(tree[e])
             THEN \* except Exception: continue
                  UNCHANGED <<xml, new_xml, tree, rewritten, pending, pc>>
             ELSE LET r == SubstituteAll(tree[e].chars, data) IN
                  /\ xml' = tree[e].chars
                  /\ new_xml' = r.text
                  /\ IF ~r.ok
                     THEN /\ pending' = Error("re.error", "substitute")
                          /\ pc' = "cleanup"
                          /\ UNCHANGED <<tree, rewritten>>
                     ELSE IF ~ShouldWrite(r.text, tree[e].chars)
                     THEN UNCHANGED <<tree, rewritten, pending, pc>>
                     ELSE \E written \in BOOLEAN :
                            IF written
                            THEN /\ tree' = [tree EXCEPT ![e] = TextFile(r.text)]
                                 /\ rewritten' = rewritten \cup {e}
                                 /\ UNCHANGED <<pending, pc>>
                            ELSE /\ tree' = [tree EXCEPT ![e] = TextFile(<<>>)]
                                 /\ pending' = Error("OSError", "write")
                                 /\ pc' = "cleanup"
                                 /\ rewritten' = rewritten
    /\ UNCHANGED <<data, key_i, form, shape, input_docx, output_docx, fs, fs0,
                   tree_made, tree_exists, err, rmtree_calls, proc, log, ret>>
    /\ UNCHANGED <<topvars, parvars, convvars>>

\* A mutant of ScanDone: when os.walk is exhausted the scan starts again.
ScanRestart ==
    /\ pc = "scan"
    /\ ScanTargets \ scanned = {}
    /\ scanned' = {}
    /\ UNCHANGED <<data, subvars, input_docx, output_docx, fs, fs0, tree_made,
                   tree_exists, tree, rewritten, pc, pending, err,
                   rmtree_calls, proc, log, ret>>
    /\ UNCHANGED <<topvars, parvars, convvars>>

\* The end of the scan: os.walk is exhausted.
ScanDone ==
    /\ pc = "scan"
    /\ ScanTargets \ scanned = {}
    /\ pc' = "repack"
    /\ UNCHANGED <<data, subvars, input_docx, output_docx, fs, fs0, tree_made,
                   tree_exists, tree, scanned, rewritten, pending, err,
                   rmtree_calls, proc, log, ret>>
    /\ UNCHANGED <<topvars, parvars, convvars>>

\* with zipfile.ZipFile(output_docx, 'w', ZIP_DEFLATED) as zout:
\*     for every file under tempdir: zout.write(fullpath, relpath)
Repack ==
    /\ pc = "repack"
    /\ \E outcome \in {"written", "not opened", "broken off"} :
          /\ fs' = CASE outcome = "written" ->
                          [fs EXCEPT ![output_docx] = Container(tree)]
                     [] outcome = "broken off" ->
                          [fs EXCEPT ![output_docx] = PartialFile]
                     [] OTHER -> fs
          /\ pending' = IF outcome = "written" THEN pending
                        ELSE Error("OSError", "repack")
    /\ pc' = "cleanup"
    /\ UNCHANGED <<data, subvars, input_docx, output_docx, fs0, tree_made,
                   tree_exists, tree, scanned, rewritten, err, rmtree_calls,
                   proc, log, ret>>
    /\ UNCHANGED <<topvars, parvars, convvars>>

\* A mutant of Cleanup: the tree is removed after the try block, not in a
\* finally clause, so an exception of the block leaves it behind.
CleanupOnSuccessOnly ==
    /\ pc = "cleanup"
    /\ IF pending # NoErr
       THEN /\ err' = pending
            /\ pc' = "failed"
            /\ UNCHANGED <<tree_exists, rmtree_calls>>
       ELSE /\ rmtree_calls' = rmtree_calls + 1
            /\ \E removed \in BOOLEAN :
                  /\ tree_exists' = ~removed
                  /\ err' = IF removed THEN err ELSE Error("OSError", "rmtree")
                  /\ pc' = IF removed THEN "render" ELSE "failed"
    /\ UNCHANGED <<data, subvars, input_docx, output_docx, fs, fs0, tree_made,
                   tree, scanned, rewritten, pending, proc, log, ret>>
    /\ UNCHANGED <<topvars, parvars, convvars>>

\* A mutant of Cleanup: after the tree is removed the call goes on to the
\* renderer even when the try block raised.
CleanupThenRender ==
    /\ pc = "cleanup"
    /\ rmtree_calls' = rmtree_calls + 1
    /\ \E removed \in BOOLEAN :
          /\ tree_exists' = ~removed
          /\ err' = IF ~removed THEN Error("OSError", "rmtree") ELSE pending
          /\ pc' = IF ~removed THEN "failed" ELSE "render"
    /\ UNCHANGED <<data, subvars, input_docx, output_docx, fs, fs0, tree_made,
                   tree, scanned, rewritten, pending, proc, log, ret>>
    /\ UNCHANGED <<topvars, parvars, convvars>>

\* finally: shutil.rmtree(tempdir). An exception of rmtree replaces the one
\* the try block raised; without any, the exception of the block goes on.
Cleanup ==
    /\ pc = "cleanup"
    /\ rmtree_calls' = rmtree_calls + 1
    /\ \E removed \in BOOLEAN :
          /\ tree_exists' = ~removed
          /\ err' = IF ~removed THEN Error("OSError", "rmtree") ELSE pending
          /\ pc' = IF ~removed \/ pending # NoErr THEN "failed" ELSE "render"
    /\ UNCHANGED <<data, subvars, input_docx, output_docx, fs, fs0, tree_made,
                   tree, scanned, rewritten, pending, proc, log, ret>>
    /\ UNCHANGED <<topvars, parvars, convvars>>

\* The message of the RuntimeError: the return code, nothing else.
ConversionError(p) == [type |-> "RuntimeError", at |-> "render", code |-> p.returncode]

\* A mutant of ConversionFailed: both conditions are needed to fail.
ConversionFailedBoth(returncode, pdfExists) == returncode # 0 /\ ~pdfExists

\* if proc.returncode != 0 or not os.path.exists(output_pdf):
ConversionFailed(returncode, pdfExists) == returncode # 0 \/ ~pdfExists

\* subprocess.run(["libreoffice", "--headless", "--convert-to", "pdf",
\* "--outdir", dirname(output_docx), output_docx], capture_output=True):
\* the executable is missing.
RenderToolMissing ==
    /\ pc = "render"
    /\ log' = log \cup {[level |-> "error", what |-> "not found", text |-> ""]}
    /\ err' = Error("FileNotFoundError", "render")
    /\ pc' = "failed"
    /\ UNCHANGED <<data, subvars, input_docx, output_docx, fs, fs0, tree_made,
                   tree_exists, tree, scanned, rewritten, pending,
                   rmtree_calls, proc, ret>>
    /\ UNCHANGED <<topvars, parvars, convvars>>

\* The renderer ran: it exits with some status and has or has not written
\* the file named after the input with the extension pdf into --outdir.
Render ==
    /\ pc = "render"
    /\ \E rc \in {0, 1}, wrote \in BOOLEAN, so \in {"out"}, se \in {"", "err"} :
          LET p == [ran |-> TRUE, returncode |-> rc, stdout |-> so, stderr |-> se]
              pdf == PdfPath(output_docx)
              fs1 == IF wrote THEN [fs EXCEPT ![pdf] = PdfFile] ELSE fs
              failed == ConversionFailed(rc, fs1[pdf] # NoFile)
          IN  /\ proc' = p
              /\ fs' = fs1
              /\ log' = log \cup
                    {[level |-> "info", what |-> "stdout", text |-> so],
                     [level |-> "info", what |-> "stderr", text |-> se]} \cup
                    (IF failed
                     THEN {[level |-> "error", what |-> "conversion", text |-> ""]}
                     ELSE {})
              /\ err' = IF failed THEN ConversionError(p) ELSE err
              /\ ret' = IF failed THEN ret ELSE <<output_docx, pdf>>
              /\ pc' = IF failed THEN "failed" ELSE "done"
    /\ UNCHANGED <<data, subvars, input_docx, output_docx, fs0, tree_made,
                   tree_exists, tree, scanned, rewritten, pending,
                   rmtree_calls>>
    /\ UNCHANGED <<topvars, parvars, convvars>>

Next ==
    \/ RemoveOldDocx
    \/ RemoveOldPdf
    \/ Mkdtemp
    \/ Extract
    \/ ScanPart
    \/ ScanDone
    \/ Repack
    \/ Cleanup
    \/ RenderToolMissing
    \/ Render

Spec == Init /\ [][Next]_vars

\* The call as a running program: a step that can be taken is taken, and
\* the renderer process returns.
\* The steps of the call other than the scan of one file.
Straight ==
    \/ RemoveOldDocx
    \/ RemoveOldPdf
    \/ Mkdtemp
    \/ Extract
    \/ ScanDone
    \/ Repack
    \/ Cleanup
    \/ RenderToolMissing
    \/ Render

\* What every step of the scan does to the set of visited files: ScanPart
\* can be taken exactly when this can, and every ScanPart step is one.
ScanStep ==
    /\ pc = "scan"
    /\ \E e \in ScanTargets \ scanned : scanned' = scanned \cup {e}

SpecLive == Init /\ [][Next]_vars /\ WF_vars(Straight) /\ WF_scanned(ScanStep)

\* The pipeline at rest, for the specification of the key loop alone.
PipelineIdle ==
    /\ input_docx = Path("t", "docx")
    /\ output_docx = Path("o", "docx")
    /\ fs = [p \in Paths |-> NoFile]
    /\ fs0 = fs
    /\ tree_made = FALSE
    /\ tree_exists = FALSE
    /\ tree = <<>>
    /\ scanned = {}
    /\ rewritten = {}
    /\ pc = "idle"
    /\ pending = NoErr
    /\ err = NoErr
    /\ rmtree_calls = 0
    /\ proc = NoProc
    /\ log = {}
    /\ ret = <<>>

InitSub ==
    /\ InitSplit \/ InitCase \/ InitContext
    /\ xml = Compose(shape)
    /\ new_xml = xml
    /\ key_i = 1
    /\ form = "double"
    /\ PipelineIdle
    /\ NoHandler
    /\ NoConcurrency
    /\ NoConversation

(***************************************************************************)
(* The key loop on one part, one re.sub call per step.                     *)
(***************************************************************************)
CurKey == data[key_i][1]
CurValue == data[key_i][2]

\* new_xml = re.sub(pattern_double, str(value), new_xml, flags=re.IGNORECASE)
SubDouble ==
    /\ form = "double"
    /\ LET r == Sub(new_xml, CurKey, "double", CurValue)
       IN  /\ new_xml' = r.text
           /\ form' = IF r.ok THEN "single" ELSE "error"
    /\ UNCHANGED <<data, xml, key_i, shape, pipevars>>
    /\ UNCHANGED <<topvars, parvars, convvars>>

\* new_xml = re.sub(pattern_single, str(value), new_xml, flags=re.IGNORECASE)
\* and the step to the next key of data.items().
SubSingle ==
    /\ form = "single"
    /\ LET r == Sub(new_xml, CurKey, "single", CurValue)
       IN  /\ new_xml' = r.text
           /\ form' = IF ~r.ok THEN "error"
                      ELSE IF key_i = Len(data) THEN "done" ELSE "double"
           /\ key_i' = IF r.ok /\ key_i < Len(data) THEN key_i + 1 ELSE key_i
    /\ UNCHANGED <<data, xml, shape, pipevars>>
    /\ UNCHANGED <<topvars, parvars, convvars>>

NextSub == SubDouble \/ SubSingle

SpecSub == InitSub /\ [][NextSub]_vars

(***************************************************************************)
(* The final handler of a flow, mdo_sulph / hfo_sulph: it allocates the    *)
(* name of the rendered document, calls fill_docx_and_convert, sends the   *)
(* pdf and removes the files. The two handlers differ in the template and  *)
(* in the keys of the map only.                                            *)
(***************************************************************************)
\* The file tempfile.NamedTemporaryFile(delete=False) leaves behind.
EmptyFile == [kind |-> "empty"]

InitTop ==
    /\ data \in DataChoices
    /\ input_docx = Path("t", "docx")
    /\ output_docx = Path("o", "docx")
    /\ \E tpl \in Templates \cup {CorruptFile, NoFile}, oldPdf \in {NoFile, OldFile} :
          fs = [p \in Paths |->
                  IF p = input_docx THEN tpl
                  ELSE IF p = PdfPath(output_docx) THEN oldPdf
                  ELSE NoFile]
    /\ fs0 = fs
    /\ tree_made = FALSE
    /\ tree_exists = FALSE
    /\ tree = <<>>
    /\ scanned = {}
    /\ rewritten = {}
    /\ pc = "idle"
    /\ pending = NoErr
    /\ err = NoErr
    /\ rmtree_calls = 0
    /\ proc = NoProc
    /\ log = {}
    /\ ret = <<>>
    /\ xml = <<>>
    /\ new_xml = <<>>
    /\ key_i = 1
    /\ form = "idle"
    /\ shape = <<>>
    /\ hpc = "alloc"
    /\ hret = "none"
    /\ sent = FALSE
    /\ rm_failed = FALSE
    /\ NoConcurrency
    /\ NoConversation

\* os.remove(path) inside try/except-pass: the file system after it, when
\* the removal works (removed) or raises.
AfterRemove(f, path, removed) ==
    IF f[path] # NoFile /\ removed THEN [f EXCEPT ![path] = NoFile] ELSE f

\* await reply_text("..."); tf = tempfile.NamedTemporaryFile(delete=False,
\* suffix=".docx"); out_docx = tf.name; tf.close(); and the call of
\* fill_docx_and_convert(tmpl_docx, out_docx, data). The name is one that no
\* file has.
SulphAllocate ==
    /\ hpc = "alloc"
    /\ fs[output_docx] = NoFile
    /\ \E started \in BOOLEAN :
          IF started
          THEN /\ fs' = [fs EXCEPT ![output_docx] = EmptyFile]
               /\ fs0' = fs'
               /\ pc' = "rm_docx"
               /\ hpc' = "call"
               /\ hret' = hret
          ELSE /\ hpc' = "end"
               /\ hret' = "raised"
               /\ UNCHANGED <<fs, fs0, pc>>
    /\ UNCHANGED <<data, subvars, input_docx, output_docx, tree_made,
                   tree_exists, tree, scanned, rewritten, pending, err,
                   rmtree_calls, proc, log, ret, sent, rm_failed>>
    /\ UNCHANGED <<parvars, convvars>>

\* except Exception as e: logger.error; await reply_text("...");
\* try: os.remove(out_docx) except: pass; return ConversationHandler.END
SulphGenerationFailed ==
    /\ hpc = "call"
    /\ pc = "failed"
    /\ \E replied \in BOOLEAN, removed \in BOOLEAN :
          IF replied
          THEN /\ fs' = AfterRemove(fs, output_docx, removed)
               /\ rm_failed' = (rm_failed \/ (fs[output_docx] # NoFile /\ ~removed))
               /\ hret' = "END"
          ELSE /\ hret' = "raised"
               /\ UNCHANGED <<fs, rm_failed>>
    /\ hpc' = "end"
    /\ UNCHANGED <<data, subvars, input_docx, output_docx, fs0, tree_made,
                   tree_exists, tree, scanned, rewritten, pc, pending, err,
                   rmtree_calls, proc, log, ret, sent>>
    /\ UNCHANGED <<parvars, convvars>>

\* try: with open(tmp_pdf, "rb") as f: await reply_document(f)
\* except Exception: logger.error; await reply_text("...")
\* finally: try: os.remove(tmp_pdf) except: pass
\*          try: os.remove(tmp_docx) except: pass
SulphSend ==
    /\ hpc = "call"
    /\ pc = "done"
    /\ \E outcome \in {"sent", "not sent", "not sent, reply raised"},
          removedPdf \in BOOLEAN, removedDocx \in BOOLEAN :
          LET tmp_docx == ret[1]
              tmp_pdf == ret[2]
              fs1 == AfterRemove(fs, tmp_pdf, removedPdf)
          IN  /\ sent' = (outcome = "sent")
              /\ fs' = AfterRemove(fs1, tmp_docx, removedDocx)
              /\ rm_failed' = (\/ rm_failed
                               \/ (fs[tmp_pdf] # NoFile /\ ~removedPdf)
                               \/ (fs1[tmp_docx] # NoFile /\ ~removedDocx))
              /\ hpc' = IF outcome = "not sent, reply raised" THEN "end" ELSE "ask"
              /\ hret' = IF outcome = "not sent, reply raised" THEN "raised" ELSE hret
    /\ UNCHANGED <<data, subvars, input_docx, output_docx, fs0, tree_made,
                   tree_exists, tree, scanned, rewritten, pc, pending, err,
                   rmtree_calls, proc, log, ret>>
    /\ UNCHANGED <<parvars, convvars>>

\* await reply_text("...", reply_markup=...); return ASK_AGAIN
SulphAskNext ==
    /\ hpc = "ask"
    /\ \E replied \in BOOLEAN :
          hret' = IF replied THEN "ASK_AGAIN" ELSE "raised"
    /\ hpc' = "end"
    /\ UNCHANGED <<data, subvars, pipevars, sent, rm_failed>>
    /\ UNCHANGED <<parvars, convvars>>

NextTop ==
    \/ SulphAllocate
    \/ RemoveOldDocx
    \/ RemoveOldPdf
    \/ Mkdtemp
    \/ Extract
    \/ ScanPart
    \/ ScanDone
    \/ Repack
    \/ Cleanup
    \/ RenderToolMissing
    \/ Render
    \/ SulphGenerationFailed
    \/ SulphSend
    \/ SulphAskNext

SpecTop == InitTop /\ [][NextTop]_vars

(***************************************************************************)
(* Concurrent invocations: each allocates its temporary name and runs      *)
(* fill_docx_and_convert, and the final handler removes the files. Only    *)
(* the names and who created the file at each name are followed here.      *)
(* tempfile.NamedTemporaryFile and tempfile.mkdtemp return a name that no  *)
(* file or directory has at the moment of the call.                        *)
(***************************************************************************)
MaxInvocations == 2

Invocations == 1..MaxInvocations
TempNames == {<<"tmp", n>> : n \in Invocations}
TempDirs == {[stem |-> <<"dir", n>>, ext |-> ""] : n \in Invocations}
DocxOf(n) == [stem |-> n, ext |-> "docx"]
PdfOf(n) == PdfPath(DocxOf(n))
TempPaths == {DocxOf(n) : n \in TempNames} \cup {PdfOf(n) : n \in TempNames}
               \cup TempDirs

InitPar ==
    /\ ppc = [i \in Invocations |-> "alloc"]
    /\ out_docx = [i \in Invocations |-> "none"]
    /\ tempdir = [i \in Invocations |-> "none"]
    /\ disk = [p \in TempPaths |-> 0]
    /\ interfered = FALSE
    /\ data = <<>>
    /\ xml = <<>>
    /\ new_xml = <<>>
    /\ key_i = 1
    /\ form = "idle"
    /\ shape = <<>>
    /\ PipelineIdle
    /\ NoHandler
    /\ NoConversation

\* Invocation i deletes, overwrites or reads the file at the path: whether
\* the file was created by another invocation.
Foreign(i, path) == disk[path] \notin {0, i}

\* tf = tempfile.NamedTemporaryFile(delete=False, suffix=".docx")
ParAllocate(i) ==
    /\ ppc[i] = "alloc"
    /\ \E n \in TempNames :
          /\ disk[DocxOf(n)] = 0
          /\ out_docx' = [out_docx EXCEPT ![i] = n]
          /\ disk' = [disk EXCEPT ![DocxOf(n)] = i]
    /\ ppc' = [ppc EXCEPT ![i] = "rm_docx"]
    /\ UNCHANGED <<tempdir, interfered>>
    /\ UNCHANGED <<data, subvars, pipevars, topvars, convvars>>

\* if os.path.exists(path): os.remove(path), exceptions swallowed.
ParRemove(i, path, next) ==
    /\ \E removed \in BOOLEAN :
          IF disk[path] # 0 /\ removed
          THEN /\ disk' = [disk EXCEPT ![path] = 0]
               /\ interfered' = (interfered \/ Foreign(i, path))
          ELSE UNCHANGED <<disk, interfered>>
    /\ ppc' = [ppc EXCEPT ![i] = next]
    /\ UNCHANGED <<out_docx, tempdir>>
    /\ UNCHANGED <<data, subvars, pipevars, topvars, convvars>>

ParRemoveOldDocx(i) ==
    /\ ppc[i] = "rm_docx"
    /\ ParRemove(i, DocxOf(out_docx[i]), "rm_pdf")

ParRemoveOldPdf(i) ==
    /\ ppc[i] = "rm_pdf"
    /\ ParRemove(i, PdfOf(out_docx[i]), "mkdtemp")

\* tempdir = tempfile.mkdtemp()
ParMkdtemp(i) ==
    /\ ppc[i] = "mkdtemp"
    /\ \/ \E d \in TempDirs :
             /\ disk[d] = 0
             /\ tempdir' = [tempdir EXCEPT ![i] = d]
             /\ disk' = [disk EXCEPT ![d] = i]
             /\ ppc' = [ppc EXCEPT ![i] = "fill"]
       \/ /\ ppc' = [ppc EXCEPT ![i] = "failed"]
          /\ UNCHANGED <<tempdir, disk>>
    /\ UNCHANGED <<out_docx, interfered>>
    /\ UNCHANGED <<data, subvars, pipevars, topvars, convvars>>

\* The extraction and the scan: they read the template and work inside
\* tempdir only.
ParFill(i) ==
    /\ ppc[i] = "fill"
    /\ \E ok \in BOOLEAN :
          ppc' = [ppc EXCEPT ![i] = IF ok THEN "repack" ELSE "cleanup after error"]
    /\ interfered' = (interfered \/ Foreign(i, tempdir[i]))
    /\ UNCHANGED <<out_docx, tempdir, disk>>
    /\ UNCHANGED <<data, subvars, pipevars, topvars, convvars>>

\* with zipfile.ZipFile(output_docx, 'w', ...) as zout: ...
ParRepack(i) ==
    /\ ppc[i] = "repack"
    /\ \E ok \in BOOLEAN :
          IF ok
          THEN /\ disk' = [disk EXCEPT ![DocxOf(out_docx[i])] = i]
               /\ interfered' = (interfered \/ Foreign(i, DocxOf(out_docx[i])))
               /\ ppc' = [ppc EXCEPT ![i] = "cleanup"]
          ELSE /\ ppc' = [ppc EXCEPT ![i] = "cleanup after error"]
               /\ UNCHANGED <<disk, interfered>>
    /\ UNCHANGED <<out_docx, tempdir>>
    /\ UNCHANGED <<data, subvars, pipevars, topvars, convvars>>

\* finally: shutil.rmtree(tempdir)
ParCleanup(i) ==
    /\ ppc[i] \in {"cleanup", "cleanup after error"}
    /\ \E removed \in BOOLEAN :
          /\ disk' = IF removed THEN [disk EXCEPT ![tempdir[i]] = 0] ELSE disk
          /\ ppc' = [ppc EXCEPT ![i] =
                        IF removed /\ ppc[i] = "cleanup" THEN "render" ELSE "failed"]
    /\ interfered' = (interfered \/ Foreign(i, tempdir[i]))
    /\ UNCHANGED <<out_docx, tempdir>>
    /\ UNCHANGED <<data, subvars, pipevars, topvars, convvars>>

\* subprocess.run(["libreoffice", ..., output_docx]) and the check of the
\* result: the renderer reads output_docx and writes the pdf next to it.
ParRender(i) ==
    /\ ppc[i] = "render"
    /\ LET docx == DocxOf(out_docx[i])
           pdf == PdfOf(out_docx[i])
       IN  \E outcome \in {"missing", "ran"}, wrote \in BOOLEAN, rc \in {0, 1} :
              IF outcome = "missing"
              THEN /\ ppc' = [ppc EXCEPT ![i] = "failed"]
                   /\ UNCHANGED <<disk, interfered>>
              ELSE LET writes == wrote /\ disk[docx] # 0
                       disk1 == IF writes THEN [disk EXCEPT ![pdf] = i] ELSE disk
                   IN  /\ disk' = disk1
                       /\ interfered' = (\/ interfered
                                         \/ Foreign(i, docx)
                                         \/ (writes /\ Foreign(i, pdf)))
                       /\ ppc' = [ppc EXCEPT ![i] =
                                     IF ConversionFailed(rc, disk1[pdf] # 0)
                                     THEN "failed" ELSE "done"]
    /\ UNCHANGED <<out_docx, tempdir>>
    /\ UNCHANGED <<data, subvars, pipevars, topvars, convvars>>

\* The except block of the final handler: os.remove(out_docx).
ParFinishFailed(i) ==
    /\ ppc[i] = "failed"
    /\ ParRemove(i, DocxOf(out_docx[i]), "end")

\* The send block of the final handler: open(tmp_pdf), reply_document,
\* os.remove(tmp_pdf), os.remove(tmp_docx).
ParFinishDone(i) ==
    /\ ppc[i] = "done"
    /\ LET docx == DocxOf(out_docx[i])
           pdf == PdfOf(out_docx[i])
       IN  \E removedPdf \in BOOLEAN, removedDocx \in BOOLEAN :
              /\ disk' = [p \in TempPaths |->
                            IF p = pdf /\ removedPdf THEN 0
                            ELSE IF p = docx /\ removedDocx THEN 0
                            ELSE disk[p]]
              /\ interfered' = (\/ interfered
                                \/ Foreign(i, pdf)
                                \/ (removedDocx /\ Foreign(i, docx)))
    /\ ppc' = [ppc EXCEPT ![i] = "end"]
    /\ UNCHANGED <<out_docx, tempdir>>
    /\ UNCHANGED <<data, subvars, pipevars, topvars, convvars>>

NextPar ==
    \E i \in Invocations :
        \/ ParAllocate(i)
        \/ ParRemoveOldDocx(i)
        \/ ParRemoveOldPdf(i)
        \/ ParMkdtemp(i)
        \/ ParFill(i)
        \/ ParRepack(i)
        \/ ParCleanup(i)
        \/ ParRender(i)
        \/ ParFinishFailed(i)
        \/ ParFinishDone(i)

SpecPar == InitPar /\ [][NextPar]_vars

(***************************************************************************)
(* Properties of fill_docx_and_convert (specification Spec).               *)
(***************************************************************************)
Returned == pc \in {"done", "failed"}

\* The try block ended without an exception: the repack has written the
\* container at output_docx.
Repacked ==
    /\ tree_made
    /\ pending = NoErr
    /\ pc \in {"cleanup", "render", "done", "failed"}

\* The files of the template at the call, and of the rendered document.
TemplateFiles == fs0[input_docx].files
RenderedFiles == fs[output_docx].files

\* C1 as stated: whenever a call that created a scratch tree has returned,
\* rmtree was called exactly once and the tree is no longer on disk.
C1_TreeGoneAtReturn ==
    (Returned /\ tree_made) => (rmtree_calls = 1 /\ ~tree_exists)

\* C1 as amended: on every exit path of a call that created a scratch tree,
\* rmtree is called exactly once, before the renderer is started, and the
\* tree is gone at the return unless that very rmtree call failed, which is
\* then the error the caller gets.
C1_TreeRemovedUnlessRmtreeFails ==
    /\ rmtree_calls <= 1
    /\ (pc = "render" => rmtree_calls = 1 /\ ~tree_exists)
    /\ (Returned /\ tree_made) =>
          /\ rmtree_calls = 1
          /\ tree_exists => err = Error("OSError", "rmtree")

C1_Witness ==
    /\ pc = "failed"
    /\ tree_made
    /\ ~tree_exists
    /\ pending = Error("OSError", "repack")

\* C2: when a stage has failed, the error that reaches the caller is the
\* error of that stage, and a failure of rmtree is never what the caller gets.
C2_PrimaryErrorReported ==
    /\ (pc = "failed" /\ pending # NoErr) => err = pending
    /\ err # Error("OSError", "rmtree")

\* C7: when the call has returned, the file at the template path is what it
\* was at the call.
C7_TemplateUntouched ==
    Returned => fs[input_docx] = fs0[input_docx]

\* C8 as stated: the rendered document holds the file entries of the
\* template at the same relative paths, and every entry outside word/, or
\* not ending in ".xml", or not decodable, has the content it had.
C8_NonXmlPartsIdentical ==
    Repacked =>
        /\ DOMAIN RenderedFiles = DOMAIN TemplateFiles
        /\ \A e \in DOMAIN TemplateFiles :
              (~InWordDir(e) \/ e.ext # "xml" \/ ~Decodable(TemplateFiles[e]))
                 => RenderedFiles[e] = TemplateFiles[e]

C8_PassThrough ==
    Repacked =>
        /\ DOMAIN RenderedFiles = DOMAIN TemplateFiles
        /\ \A e \in DOMAIN TemplateFiles :
              (~InWordDir(e) \/ LowerExt(e.ext) # "xml"
                 \/ ~Decodable(TemplateFiles[e]))
                 => RenderedFiles[e] = TemplateFiles[e]

C8_UndecodableSkipped ==
    (pc = "scan" /\ scanned' # scanned
       /\ \A e \in scanned' \ scanned : ~Decodable(tree[e]))
      => (pc' = "scan" /\ pending' = NoErr /\ tree' = tree /\ rewritten' = rewritten)

\* C8 as amended: the rendered document holds the file entries of the
\* template at the same relative paths, and every entry outside word/, or
\* whose name does not end in ".xml" compared without regard to case, or
\* not decodable, has the content it had; a scan step on an undecodable
\* file changes nothing and raises nothing.
C8_OpaquePartsPreserved ==
    [](C8_PassThrough) /\ [][C8_UndecodableSkipped]_vars

C8_Witness ==
    /\ Repacked
    /\ DocumentXml \in scanned
    /\ ~Decodable(TemplateFiles[DocumentXml])
    /\ HeaderXml \in rewritten
    /\ Decodable(TemplateFiles[ImagePng])
    /\ RenderedFiles[ImagePng] = WithPlaceholder

\* No key of the map occurs in any decodable file of the template, in
\* either form.
NoOccurrence ==
    /\ fs0[input_docx].kind = "zip"
    /\ \A e \in DOMAIN TemplateFiles :
          Decodable(TemplateFiles[e]) =>
             \A i \in 1..Len(data) :
                /\ ~Occurs(TemplateFiles[e].chars, data[i][1], "double")
                /\ ~Occurs(TemplateFiles[e].chars, data[i][1], "single")

\* C9: a part is written back only with a content that differs from the one
\* read, the content after all key passes; and when no key of a non-empty
\* map occurs in the template, no part is written back and every decodable
\* part of the rendered document is the template's.
C9_RewrittenOnlyIfChanged ==
    /\ \A e \in rewritten :
          /\ Decodable(TemplateFiles[e])
          /\ tree[e] # TemplateFiles[e]
          /\ tree[e] = TextFile(SubstituteAll(TemplateFiles[e].chars, data).text)
    /\ (NoOccurrence /\ data # <<>>) =>
          /\ rewritten = {}
          /\ Repacked =>
                \A e \in DOMAIN TemplateFiles :
                   Decodable(TemplateFiles[e]) => RenderedFiles[e] = TemplateFiles[e]

C9_Witness ==
    /\ Repacked
    /\ NoOccurrence
    /\ data # <<>>
    /\ data[1][1] = <<"K">>
    /\ TemplateFiles[DocumentXml] = NearMiss
    /\ DocumentXml \in scanned
    /\ RenderedFiles[DocumentXml] = NearMiss

\* The exception carries the value under the name.
Carries(e, name, val) == name \in DOMAIN e /\ e[name] = val

Logged(what, val) == [level |-> "info", what |-> what, text |-> val] \in log

\* The call returns normally, with the pair (output_docx, output_docx with
\* the extension pdf), exactly when the renderer exited with 0 and the pdf
\* is there.
C10_ReturnIff ==
    /\ pc = "done" <=>
          (proc.ran /\ proc.returncode = 0 /\ fs[PdfPath(output_docx)] # NoFile)
    /\ ret = IF pc = "done" THEN <<output_docx, PdfPath(output_docx)>> ELSE <<>>
    /\ (proc.ran /\ pc # "done") => (pc = "failed" /\ err.type = "RuntimeError")

\* C10 as stated: ... and when the renderer ran and either condition fails,
\* the error carries the captured standard output and standard error.
C10_ErrorCarriesOutput ==
    /\ C10_ReturnIff
    /\ (proc.ran /\ pc = "failed") =>
          /\ Carries(err, "stdout", proc.stdout)
          /\ Carries(err, "stderr", proc.stderr)

\* C10 as amended: ... and when the renderer ran and either condition
\* fails, the call fails with a RuntimeError that carries the exit status
\* only; the captured standard output and standard error are in the log.
C10_ErrorCarriesStatus ==
    /\ C10_ReturnIff
    /\ (proc.ran /\ pc = "failed") =>
          /\ err = [type |-> "RuntimeError", at |-> "render",
                    code |-> proc.returncode]
          /\ Logged("stdout", proc.stdout)
          /\ Logged("stderr", proc.stderr)

C10_Witness ==
    /\ pc = "failed"
    /\ proc.ran
    /\ proc.returncode = 0
    /\ fs[PdfPath(output_docx)] = NoFile
    /\ proc.stderr = "err"

\* The renderer executable was not found: the call failed in the render
\* stage without a renderer process having run.
ToolMissing == pc = "failed" /\ err.at = "render" /\ ~proc.ran

\* C11: when the renderer executable is missing the call fails with an
\* exception of a type that no other failure of the call has (renderer ran
\* and failed, template missing or corrupt, filesystem failure), and no file
\* is at the derived pdf path afterwards.
C11_ToolMissingDistinct ==
    /\ ToolMissing => fs[PdfPath(output_docx)] = NoFile
    /\ (pc = "failed" /\ ~ToolMissing) => err.type # "FileNotFoundError"

\* C14: the call goes on past the removal of an old file only when the file
\* is gone (a removal that fails ends the call with an error), and when the
\* rendered document cannot be created the call fails with an OSError.
C14_RemovalFailureSurfaced ==
    /\ pc \in {"rm_pdf", "mkdtemp"} => fs[output_docx] = NoFile
    /\ pc = "mkdtemp" => fs[PdfPath(output_docx)] = NoFile
    /\ (Returned /\ pending = Error("OSError", "repack"))
          => (pc = "failed" /\ err.type = "OSError")

\* The steps the position of the call can take: the removals, then unpack
\* (mkdtemp, extract), scan (one step per file), repack, the removal of the
\* tree, render; an exception leads to the removal of the tree and from
\* there to the failed outcome.
StageSteps ==
    { <<"rm_docx", "rm_pdf">>, <<"rm_pdf", "mkdtemp">>,
      <<"mkdtemp", "extract">>, <<"mkdtemp", "failed">>,
      <<"extract", "scan">>, <<"extract", "cleanup">>,
      <<"scan", "scan">>, <<"scan", "repack">>, <<"scan", "cleanup">>,
      <<"repack", "cleanup">>,
      <<"cleanup", "render">>, <<"cleanup", "failed">>,
      <<"render", "done">>, <<"render", "failed">> }

C17_Step ==
    /\ <<pc, pc'>> \in StageSteps
    /\ pending # NoErr => (pc = "cleanup" /\ pc' = "failed" /\ proc' = NoProc)
    /\ proc.ran => proc' = proc
    /\ proc'.ran => (pc = "render" /\ ~proc.ran)
    /\ (pc = "scan" /\ pc' = "scan") => scanned' # scanned

C17_State ==
    /\ proc.ran => (Repacked /\ ScanTargets \subseteq scanned /\ ~tree_exists)
    /\ pc \in {"repack", "render", "done"} => pending = NoErr
    /\ pc = "failed" => (err # NoErr /\ ret = <<>>)

\* C17: the position of the call moves only along unpack, scan, repack,
\* render, every stage entered at most once (the scan visits every file
\* once); after an exception in a stage no later stage runs and the call
\* fails; the renderer is started at most once, only after the repack has
\* written the document without an exception, and its result is final.
C17_StagesInOrder ==
    [](C17_State) /\ [][C17_Step]_vars

C17_Witness ==
    /\ pc = "failed"
    /\ pending = Error("re.error", "substitute")
    /\ ~proc.ran
    /\ rmtree_calls = 1
    /\ fs[output_docx] = NoFile
    /\ scanned # {}

\* C18: when the call has failed and a file was at output_docx at the call,
\* the file at output_docx is the one of before, or none, or the complete
\* container the repack wrote.
C18_NoPartialDestination ==
    (pc = "failed" /\ fs0[output_docx] # NoFile)
      => \/ fs[output_docx] = fs0[output_docx]
         \/ fs[output_docx] = NoFile
         \/ fs[output_docx] = Container(tree)

\* C19: every call reaches the done or the failed outcome, given that the
\* renderer returns: the scan visits every file once and every re.sub goes
\* through the content once, not into the text it has inserted.
C19_Terminates == <>Returned

\* The value of K holds a placeholder for K: the pass for the delimited
\* form has inserted it once, the pass for the degraded form has replaced the
\* "{K}}" in it once, and neither has gone into its own insertion.
C19_Witness ==
    /\ Returned
    /\ data = << <<<<"K">>, <<"x", "{", "{", "K", "}", "}">>>> >>
    /\ DocumentXml \in rewritten
    /\ tree[DocumentXml] = TextFile(<<"x", "{", "x", "{", "{", "K", "}", "}", "x">>)

\* C20: when the call has returned normally, the file at the derived pdf
\* path is the one the renderer of this call wrote, never a file that was
\* there at the call.
C20_PdfIsFresh ==
    pc = "done" => fs[PdfPath(output_docx)] = PdfFile

(***************************************************************************)
(* Properties of the key loop (specification SpecSub).                     *)
(***************************************************************************)
TheKey == data[1][1]
TheValue == data[1][2]

NoFragments(s) == s.f0 = <<>> /\ s.f1 = <<>> /\ s.f2 = <<>>
OnlyTags(s) == {s.f0, s.f1, s.f2} \subseteq {<<>>, Tag, Tag \o Tag}

\* The content is one placeholder in the delimited form and nothing else,
\* and the map has the one key written in it (in some case).
OnePlaceholder ==
    /\ shape.before = <<>>
    /\ shape.after = <<>>
    /\ shape.open = <<"{", "{">>
    /\ shape.close = <<"}", "}">>
    /\ Len(data) = 1
    /\ SameFold(shape.w, TheKey)

\* C3: a placeholder whose key is interrupted by tags, also inside the key
\* text, is replaced by the value of the key.
C3_SplitPlaceholderReplaced ==
    (form = "done" /\ OnePlaceholder /\ OnlyTags(shape)
       /\ \A i \in 1..Len(TheValue) : TheValue[i] # BS)
      => new_xml = TheValue

\* C4: the matched placeholder is replaced by the value, character for
\* character, whatever the value is, and the substitution does not fail.
C4_ValueInsertedLiterally ==
    (OnePlaceholder /\ NoFragments(shape))
      => /\ form # "error"
         /\ form = "done" => new_xml = TheValue

\* A key of the map still occurs in the content, in either form.
OccurrenceLeft ==
    \E i \in 1..Len(data) :
       Occurs(new_xml, data[i][1], "double") \/ Occurs(new_xml, data[i][1], "single")

\* The map has the key K; its value.
HasK == \E i \in 1..Len(data) : data[i][1] = <<"K">>
ValueOfK == data[CHOOSE i \in 1..Len(data) : data[i][1] = <<"K">>][2]

\* No value of the map holds a delimiter.
PlainValues ==
    \A i \in 1..Len(data) : \A j \in 1..Len(data[i][2]) :
       data[i][2][j] \notin {"{", "}"}

\* C5: after the substitution with values that hold no delimiter, no key of
\* the map occurs in the content in either form, and where {{K}} stood
\* between plain text there is the value of K and no delimiter.
C5_NoPlaceholderLeft ==
    (form = "done" /\ PlainValues) =>
       /\ ~OccurrenceLeft
       /\ (/\ HasK
           /\ NoFragments(shape)
           /\ shape.open = <<"{", "{">> /\ shape.close = <<"}", "}">>
           /\ shape.w = <<"K">>
           /\ shape.before \in {<<>>, <<"x">>} /\ shape.after \in {<<>>, <<"x">>})
          => new_xml = shape.before \o ValueOfK \o shape.after

\* The key of the map that the written key is a case variant of.
HasWritten == \E i \in 1..Len(data) : SameFold(shape.w, data[i][1])
WrittenIndex == CHOOSE i \in 1..Len(data) : SameFold(shape.w, data[i][1])
NoBackslash(v) == \A i \in 1..Len(v) : v[i] # BS

\* C6: a placeholder whose key is written in any case, in the delimited or
\* the degraded form, is matched as a whole by the pattern of the map key it
\* is a case variant of, and the loop replaces it by what re.sub inserts for
\* the value of that key: the value itself when it holds no backslash (the
\* values of the map holding no delimiter).
C6_CaseInsensitiveMatch ==
    (/\ shape.before = <<>> /\ shape.after = <<>>
     /\ shape.close = <<"}", "}">>
     /\ NoFragments(shape)
     /\ HasWritten)
      => LET key == data[WrittenIndex][1]
             value == data[WrittenIndex][2]
         IN  /\ MatchAt(xml, 1, key,
                        IF shape.open = <<"{", "{">> THEN "double" ELSE "single")
                   = Len(xml) + 1
             /\ (form = "done" /\ PlainValues) => new_xml = Replacement(value).text
             /\ (form = "done" /\ PlainValues /\ NoBackslash(value)) => new_xml = value
             /\ form = "error" => \E i \in 1..Len(data) : ~TemplateOk(data[i][2])

C6_Witness ==
    /\ form = "done"
    /\ OnePlaceholder
    /\ NoFragments(shape)
    /\ shape.w = <<"K", "k">>
    /\ TheKey = <<"k", "K">>
    /\ TheValue = <<"(", "x">>
    /\ new_xml = <<"(", "x">>

\* C15: the keys are processed one at a time in the order of the map, each
\* with the delimited form and then the degraded form on the content all the
\* earlier passes produced: before every re.sub the content is the fold of
\* the passes so far, at the end it is the fold over the whole map, and the
\* loop ends in an error exactly when the fold does.
C15_SequentialFold ==
    LET sofar == SubstituteAll(xml, SubSeq(data, 1, key_i - 1))
    IN  /\ form = "double" => (sofar.ok /\ new_xml = sofar.text)
        /\ form = "single" =>
              (sofar.ok /\ new_xml = Sub(sofar.text, CurKey, "double", CurValue).text)
        /\ form = "done" =>
              /\ SubstituteAll(xml, data).ok
              /\ new_xml = SubstituteAll(xml, data).text
              /\ Len(data) = 2 =>
                    new_xml = KeyPass(KeyPass(xml, data[1][1], data[1][2]).text,
                                      data[2][1], data[2][2]).text
        /\ form = "error" => ~SubstituteAll(xml, data).ok

\* The value inserted for K holds a placeholder for M, which the later pass
\* for M replaces.
C15_Witness ==
    /\ form = "done"
    /\ data = << <<<<"K">>, <<"{", "{", "m", "}", "}">>>>, <<<<"M">>, <<"x">>>> >>
    /\ xml = <<"x", "{", "{", "K", "}", "}", "x">>
    /\ new_xml = <<"x", "x", "x">>

\* The same pairs in the opposite order, and the loop run over them.
Reverse(d) == [i \in 1..Len(d) |-> d[Len(d) + 1 - i]]
Reversed == SubstituteAll(xml, Reverse(data))

Inert(v) ==
    LET r == Replacement(v)
    IN  r.ok => /\ r.text # <<>>
                /\ \A i \in 1..Len(r.text) : r.text[i] \notin {"{", "}", " ", NL}

HandlerEnded == hpc = "end"

\* C12: when the final handler has finished, on any path, and none of its
\* removals has raised, neither the rendered document nor a pdf at the
\* derived path is on disk (no file was at the derived path at the call).
C12_NoFilesLeft ==
    (HandlerEnded /\ ~rm_failed /\ fs0[PdfPath(output_docx)] = NoFile)
      => /\ fs[output_docx] = NoFile
         /\ fs[PdfPath(output_docx)] = NoFile

(***************************************************************************)
(* Properties of concurrent invocations (specification SpecPar).           *)
(***************************************************************************)
\* The invocation holds a temporary name; its scratch tree is on disk.
Live(i) == ppc[i] \notin {"alloc", "end"}
TreeLive(i) == ppc[i] \in {"fill", "repack", "cleanup", "cleanup after error"}

\* C13: at every moment, two invocations that are under way have different
\* rendered-document paths (hence different derived pdf paths) and different
\* scratch directories, and no invocation has deleted, overwritten or read a
\* file that another one created.
C13_InvocationsDisjoint ==
    /\ \A i, j \in Invocations :
          (i # j /\ Live(i) /\ Live(j)) => out_docx[i] # out_docx[j]
    /\ \A i, j \in Invocations :
          (i # j /\ TreeLive(i) /\ TreeLive(j)) => tempdir[i] # tempdir[j]
    /\ ~interfered

\* ---------------------------------------------------------------------
\* The conversation: the ConversationHandler of main() and its handlers.
\* One conversation is followed.  An update is handled to its end before
\* the next one is taken.  A handler that raises leaves the conversation
\* in the state it was in, and keeps what it wrote to user_data before.
\* ---------------------------------------------------------------------

\* The largest number of documents one behaviour begins.
MaxDocs == 2

END == "END"

\* The states of the two flows, in the order of the state table.
MdoStates ==
    <<"CHOOSE_FUEL", "MDO_NAME", "MDO_DATE", "MDO_DATE_RECEIVED",
      "MDO_LOCATION", "MDO_SEAL", "MDO_NUMBER", "MDO_BARGE", "MDO_DENS",
      "MDO_VISC", "MDO_FLASH", "MDO_POUR", "MDO_CARBON", "MDO_SULPH",
      "ASK_AGAIN">>
HfoStates ==
    <<"CHOOSE_FUEL", "HFO_CHOOSE_TYPE", "HFO_NAME", "HFO_DATE",
      "HFO_DATE_RECEIVED", "HFO_LOCATION", "HFO_SEAL", "HFO_NUMBER",
      "HFO_BARGE", "HFO_DENS", "HFO_VISC", "HFO_FLASH", "HFO_POUR",
      "HFO_CARBON", "HFO_SULPH", "ASK_AGAIN">>
Range(q) == {q[i] : i \in DOMAIN q}
States == Range(MdoStates) \cup Range(HfoStates)

\* A value of user_data: the document it was written for and the text of
\* the update it was taken or derived from.
Value(d, text) == [doc |-> d, text |-> text]

\* dict: the keys, a lookup, an assignment (a key that is present keeps its
\* place, a new key goes to the end), several assignments in a row.
Keys(ud) == {ud[i][1] : i \in DOMAIN ud}
Get(ud, k) == ud[CHOOSE i \in DOMAIN ud : ud[i][1] = k][2]
Put(ud, k, v) ==
    IF k \in Keys(ud)
    THEN [i \in DOMAIN ud |-> IF ud[i][1] = k THEN <<k, v>> ELSE ud[i]]
    ELSE Append(ud, <<k, v>>)
RECURSIVE PutAll(_, _, _)
PutAll(ud, ks, v) ==
    IF ks = <<>> THEN ud ELSE PutAll(Put(ud, Head(ks), v), Tail(ks), v)

\* str.upper() on the keys the handlers use: the literals of the source
\* are upper-case already.
KeyUpper ==
    [k \in {"FUEL", "NAME", "DATE", "DATE_RECEIVED", "DATE_TEST",
            "LOCATION", "SEAL", "NUMBER", "SAMPLE", "BARGE", "DENS", "VISC",
            "FLASH", "POUR", "CLOUD", "CARBON", "SULPH", "ASH", "CETANE",
            "VANAD", "SEDIM"} |-> k]
\* data = {k.upper(): v for k, v in context.user_data.items()}
UpperItems(ud) == [i \in DOMAIN ud |-> <<KeyUpper[ud[i][1]], ud[i][2]>>]

InitConv ==
    /\ data = <<>>
    /\ xml = <<>>
    /\ new_xml = <<>>
    /\ key_i = 1
    /\ form = "idle"
    /\ shape = <<>>
    /\ PipelineIdle
    /\ NoHandler
    /\ NoConcurrency
    /\ NoConversation

\* The end of every handler: the update handled in state st has written ud;
\* the conversation moves to next when the handler returned, and stays
\* where it was when the handler raised.
Handled(st, text, ud, next, returned) ==
    /\ update' = [at |-> st, text |-> text]
    /\ user_data' = ud
    /\ state' = IF returned THEN next ELSE st
    /\ UNCHANGED <<data, subvars, pipevars, topvars, parvars>>

\* A handler that stores the text under its keys, replies and returns the
\* next state; the reply (a request to the network) can raise.
Store(st, ks, next) ==
    /\ state = st
    /\ \E replied \in BOOLEAN :
          Handled(st, "text", PutAll(user_data, ks, Value(doc, "text")),
                  next, replied)
    /\ UNCHANGED <<doc, called>>

\* A handler that checks the text first: a text that fails the check is
\* answered and the same state returned, nothing is written; a text that
\* passes is stored under the keys of the step.
Validate(st, ks, next) ==
    /\ state = st
    /\ \E replied \in BOOLEAN :
          \/ Handled(st, "invalid", user_data, st, replied)
          \/ Handled(st, "valid",
                     PutAll(user_data, ks, Value(doc, "valid")), next, replied)
    /\ UNCHANGED <<doc, called>>

\* mdo_date_received, hfo_date_received: strptime, DATE_RECEIVED, then
\* DATE_TEST from the day after.  For the last day datetime can hold,
\* 31-Dec-9999, strptime succeeds, DATE_RECEIVED is written and the
\* addition raises OverflowError, which except ValueError lets through.
DateReceived(st, next) ==
    \/ Validate(st, <<"DATE_RECEIVED", "DATE_TEST">>, next)
    \/ /\ state = st
       /\ Handled(st, "last day",
                  Put(user_data, "DATE_RECEIVED", Value(doc, "last day")),
                  st, FALSE)
       /\ UNCHANGED <<doc, called>>

\* mdo_sulph, hfo_sulph: the last fields, the reply, the map, the call of
\* fill_docx_and_convert, the PDF sent, the question what to do next.
\*   "unannounced"  the first reply (or the temporary file) raised
\*   "failed"       the call raised, the user was told, END is returned
\*   "untold"       the call raised, and the reply about it raised too
\*   "generated"    the call returned, ASK_AGAIN is returned
\*   "unasked"      the call returned, the last reply raised
Outcomes == {"unannounced", "failed", "untold", "generated", "unasked"}
Generate(st, ks, tmpl) ==
    /\ state = st
    /\ \E outcome \in Outcomes :
          LET ud == PutAll(user_data, ks, Value(doc, "text")) IN
          /\ Handled(st, "text", ud,
                     IF outcome = "failed" THEN END ELSE "ASK_AGAIN",
                     outcome \in {"failed", "generated"})
          /\ called' = IF outcome = "unannounced" THEN called
                       ELSE called \cup {[input_docx |-> tmpl, at |-> st,
                                          doc |-> doc,
                                          data |-> UpperItems(ud)]}
    /\ UNCHANGED doc

\* entry_points: /start, when there is no conversation.
start ==
    /\ state = END
    /\ \E replied \in BOOLEAN :
          Handled(END, "/start", user_data, "CHOOSE_FUEL", replied)
    /\ UNCHANGED <<doc, called>>

\* choose_mdo with the call of clear() left out.
choose_mdo_keeping ==
    /\ state = "CHOOSE_FUEL"
    /\ doc < MaxDocs
    /\ doc' = doc + 1
    /\ \E replied \in BOOLEAN :
          Handled("CHOOSE_FUEL", "MDO",
                  Put(user_data, "FUEL", Value(doc + 1, "MDO")),
                  "MDO_NAME", replied)
    /\ UNCHANGED called

choose_mdo ==
    /\ state = "CHOOSE_FUEL"
    /\ doc < MaxDocs
    /\ doc' = doc + 1
    /\ \E replied \in BOOLEAN :
          Handled("CHOOSE_FUEL", "MDO",
                  Put(<<>>, "FUEL", Value(doc + 1, "MDO")),
                  "MDO_NAME", replied)
    /\ UNCHANGED called

mdo_name == Store("MDO_NAME", <<"NAME">>, "MDO_DATE")
mdo_date == Validate("MDO_DATE", <<"DATE">>, "MDO_DATE_RECEIVED")
mdo_date_received == DateReceived("MDO_DATE_RECEIVED", "MDO_LOCATION")
mdo_location == Store("MDO_LOCATION", <<"LOCATION">>, "MDO_SEAL")
mdo_seal == Store("MDO_SEAL", <<"SEAL">>, "MDO_NUMBER")
mdo_number == Validate("MDO_NUMBER", <<"NUMBER", "SAMPLE">>, "MDO_BARGE")
mdo_barge == Store("MDO_BARGE", <<"BARGE">>, "MDO_DENS")
mdo_dens == Store("MDO_DENS", <<"DENS">>, "MDO_VISC")
mdo_visc == Store("MDO_VISC", <<"VISC">>, "MDO_FLASH")
mdo_flash == Store("MDO_FLASH", <<"FLASH">>, "MDO_POUR")
mdo_pour == Validate("MDO_POUR", <<"POUR", "CLOUD">>, "MDO_CARBON")
\* mdo_carbon returning a state of the other flow.
mdo_carbon_crossing == Store("MDO_CARBON", <<"CARBON">>, "HFO_SULPH")
mdo_carbon == Store("MDO_CARBON", <<"CARBON">>, "MDO_SULPH")
mdo_sulph == Generate("MDO_SULPH", <<"SULPH", "ASH", "CETANE">>, "MDO.docx")

choose_hfo ==
    /\ state = "CHOOSE_FUEL"
    /\ doc < MaxDocs
    /\ doc' = doc + 1
    /\ \E replied \in BOOLEAN :
          Handled("CHOOSE_FUEL", "HFO", <<>>, "HFO_CHOOSE_TYPE", replied)
    /\ UNCHANGED called

hfo_choose_type == Validate("HFO_CHOOSE_TYPE", <<"FUEL">>, "HFO_NAME")
hfo_name == Store("HFO_NAME", <<"NAME">>, "HFO_DATE")
hfo_date == Validate("HFO_DATE", <<"DATE">>, "HFO_DATE_RECEIVED")
hfo_date_received == DateReceived("HFO_DATE_RECEIVED", "HFO_LOCATION")
hfo_location == Store("HFO_LOCATION", <<"LOCATION">>, "HFO_SEAL")
hfo_seal == Store("HFO_SEAL", <<"SEAL">>, "HFO_NUMBER")
hfo_number == Validate("HFO_NUMBER", <<"NUMBER", "SAMPLE">>, "HFO_BARGE")
hfo_barge == Store("HFO_BARGE", <<"BARGE">>, "HFO_DENS")
hfo_dens == Store("HFO_DENS", <<"DENS">>, "HFO_VISC")
hfo_visc == Store("HFO_VISC", <<"VISC">>, "HFO_FLASH")
hfo_flash == Store("HFO_FLASH", <<"FLASH">>, "HFO_POUR")
hfo_pour == Validate("HFO_POUR", <<"POUR">>, "HFO_CARBON")
hfo_carbon == Store("HFO_CARBON", <<"CARBON", "ASH">>, "HFO_SULPH")
hfo_sulph == Generate("HFO_SULPH", <<"SULPH", "VANAD", "SEDIM">>, "HFO.docx")

\* fallbacks: /cancel, in any state of a conversation.
cancel ==
    /\ state # END
    /\ \E replied \in BOOLEAN :
          Handled(state, "/cancel", user_data, END, replied)
    /\ UNCHANGED <<doc, called>>

\* ask_again: one more document (user_data is cleared), the end, or any
\* other text, which is answered with the two buttons again.
ask_again ==
    /\ state = "ASK_AGAIN"
    /\ \E replied \in BOOLEAN :
          \/ Handled("ASK_AGAIN", "again", <<>>, "CHOOSE_FUEL", replied)
          \/ Handled("ASK_AGAIN", "finish", user_data, END, replied)
          \/ Handled("ASK_AGAIN", "other", user_data, "ASK_AGAIN", replied)
    /\ UNCHANGED <<doc, called>>

NextConv ==
    \/ start
    \/ choose_mdo
    \/ mdo_name
    \/ mdo_date
    \/ mdo_date_received
    \/ mdo_location
    \/ mdo_seal
    \/ mdo_number
    \/ mdo_barge
    \/ mdo_dens
    \/ mdo_visc
    \/ mdo_flash
    \/ mdo_pour
    \/ mdo_carbon
    \/ mdo_sulph
    \/ choose_hfo
    \/ hfo_choose_type
    \/ hfo_name
    \/ hfo_date
    \/ hfo_date_received
    \/ hfo_location
    \/ hfo_seal
    \/ hfo_number
    \/ hfo_barge
    \/ hfo_dens
    \/ hfo_visc
    \/ hfo_flash
    \/ hfo_pour
    \/ hfo_carbon
    \/ hfo_sulph
    \/ cancel
    \/ ask_again

SpecConv == InitConv /\ [][NextConv]_vars

\* ---------------------------------------------------------------------
\* Properties of the conversation (SpecConv).
\* ---------------------------------------------------------------------

CommonKeys ==
    {"FUEL", "NAME", "DATE", "DATE_RECEIVED", "DATE_TEST", "LOCATION",
     "SEAL", "NUMBER", "SAMPLE", "BARGE", "DENS", "VISC", "FLASH", "POUR",
     "CARBON", "SULPH", "ASH"}
MdoKeys == CommonKeys \cup {"CLOUD", "CETANE"}
HfoKeys == CommonKeys \cup {"VANAD", "SEDIM"}
FlowKeys(c) == IF c.input_docx = "MDO.docx" THEN MdoKeys ELSE HfoKeys

StepKeys ==
    [MDO_DATE |-> {"DATE"},
     MDO_DATE_RECEIVED |-> {"DATE_RECEIVED", "DATE_TEST"},
     MDO_NUMBER |-> {"NUMBER", "SAMPLE"},
     MDO_POUR |-> {"POUR", "CLOUD"},
     HFO_CHOOSE_TYPE |-> {"FUEL"},
     HFO_DATE |-> {"DATE"},
     HFO_DATE_RECEIVED |-> {"DATE_RECEIVED", "DATE_TEST"},
     HFO_NUMBER |-> {"NUMBER", "SAMPLE"},
     HFO_POUR |-> {"POUR"}]

\* The update just handled came in a validating step, and:  a text that
\* failed the check changed neither the state nor user_data;  if user_data
\* changed, only fields of the step changed, and all fields of the step are
\* now there, written from this text.
C22_Step ==
    update'.at \in DOMAIN StepKeys =>
        /\ update'.text = "invalid" =>
              (state' = state /\ user_data' = user_data)
        /\ user_data' # user_data =>
              /\ \A k \in StepKeys[update'.at] :
                    /\ k \in Keys(user_data')
                    /\ Get(user_data', k) = Value(doc, update'.text)
              /\ \A k \in Keys(user_data) \ StepKeys[update'.at] :
                    /\ k \in Keys(user_data')
                    /\ Get(user_data', k) = Get(user_data, k)
              /\ Keys(user_data') \subseteq
                    Keys(user_data) \cup StepKeys[update'.at]

\* C22: in every validating step (analysis date, received date, report
\* number, pour point, HFO type) an input that fails validation leaves the
\* state and the field data unchanged, and the fields of the step, the
\* derived ones included, are written only on success and all together.
C22_ValidatingStepsAreAtomic == [][C22_Step]_vars

\* b is the immediate successor of a in the flow.
Successor(flow, a, b) ==
    \E i \in 1..(Len(flow) - 1) : flow[i] = a /\ flow[i + 1] = b

\* One step of the conversation: the state stays, advances to its
\* successor in the MDO or in the HFO flow, goes from ASK_AGAIN back to
\* CHOOSE_FUEL, or the conversation ends; /start begins a conversation at
\* CHOOSE_FUEL.  fill_docx_and_convert is called in the last step of a
\* flow only, with the template of that flow.
C23_Step ==
    /\ \/ state' = state
       \/ Successor(MdoStates, state, state')
       \/ Successor(HfoStates, state, state')
       \/ state = "ASK_AGAIN" /\ state' = "CHOOSE_FUEL"
       \/ state # END /\ state' = END
       \/ state = END /\ state' = "CHOOSE_FUEL"
    /\ called' # called =>
          /\ state \in {"MDO_SULPH", "HFO_SULPH"}
          /\ \A c \in called' \ called :
                /\ c.at = state
                /\ c.input_docx =
                      (IF state = "MDO_SULPH" THEN "MDO.docx" ELSE "HFO.docx")

\* C23: the conversation state changes only by staying, by advancing to
\* the immediate successor of its flow, by going from ASK_AGAIN back to
\* CHOOSE_FUEL, or by ending; no step is skipped, no flow enters a state
\* of the other, and the pipeline is invoked only from the last step of a
\* flow.
C23_LinearFlows == [][C23_Step]_vars

\* The second document has gone through the whole HFO flow, the first one
\* through the MDO flow, and the conversation asks what to do next.
C23_Witness ==
    /\ state = "ASK_AGAIN"
    /\ update.at = "HFO_SULPH"
    /\ doc = 2
    /\ \E c \in called : c.at = "MDO_SULPH" /\ c.doc = 1
    /\ \E c \in called : c.at = "HFO_SULPH" /\ c.doc = 2

====
